---- MODULE Spec2Model ----
(***************************************************************************)
(* Model of the shadcn-vue registry pipeline:                              *)
(*   - the installer updateFiles (packages/cli/.../update-files.ts),       *)
(*   - the dependency classifier populateDeps, the block metadata reader   *)
(*     getBlockMetadata and the registry builder buildRegistry             *)
(*     (the registry crawl module, src/unnamed/part_000).                  *)
(*                                                                         *)
(* Strings that the code takes apart (paths, file names, import            *)
(* specifiers) are sequences of tokens: a token is one character where the *)
(* code looks at characters (".", "/", "~", "@", the letters of an         *)
(* extension) and an unbroken run of other characters elsewhere.  A path   *)
(* is a sequence of segments, each segment a sequence of tokens.           *)
(***************************************************************************)
EXTENDS Integers, Sequences, FiniteSets, TLC

VARIABLES
    \* ---- installer (updateFiles) ----
    files,          \* the files argument
    overwrite,      \* options.overwrite
    typescript,     \* config.typescript
    silent,         \* options.silent
    dirs,           \* directories that exist on disk
    disk,           \* file path -> content, for the files that exist on disk
    disk0,          \* history: disk when updateFiles was called
    pc,             \* position of updateFiles
    idx,            \* index of the file the for-loop is at
    filesCreated, filesUpdated, filesSkipped, folderSkipped,
    prompts,        \* history: the confirmation prompts issued, with answers
    trace,          \* history: one record per loop iteration that finished
    error,          \* the exception that left updateFiles, or "none"
    existingFile,   \* the local existingFile of the iteration under way
    absentAtCheck,  \* history: the destination was absent at that check
    landed,         \* history: the files whose fs.writeFile has completed
    wpos,           \* the blocks the fs.writeFile under way has written
    other,          \* a second call of updateFiles: its position and its file
    noFilesSignal,  \* spinner.info('No files updated.') was called
    summary,        \* the created/updated/skipped report, once emitted
    \* ---- dependency classifier (getFileDependencies) ----
    imports, impIdx, dependencies, registryDependencies,
    \* ---- block metadata (getBlockMetadata) ----
    metaFile, metaBody, metaIdx, metadata, metaPc,
    \* ---- registry build (buildRegistry) ----
    tree, styleIdx, tasks, completed, registry, buildPc

instVars == <<files, overwrite, typescript, silent, dirs, disk, disk0, pc, idx,
              filesCreated, filesUpdated, filesSkipped, folderSkipped,
              prompts, trace, error, noFilesSignal, summary,
              existingFile, absentAtCheck, landed, wpos, other>>
depVars == <<imports, impIdx, dependencies, registryDependencies>>
metaVars == <<metaFile, metaBody, metaIdx, metadata, metaPc>>
buildVars == <<tree, styleIdx, tasks, completed, registry, buildPc>>
vars == <<instVars, depVars, metaVars, buildVars>>

\* Sequences over S of length at most n.
SeqsUpTo(S, n) == UNION {[1..k -> S] : k \in 0..n}

\* s.startsWith(p) / s.endsWith(p) on token sequences.
StartsWith(s, p) == Len(s) >= Len(p) /\ SubSeq(s, 1, Len(p)) = p
EndsWith(s, p) == Len(s) >= Len(p) /\ SubSeq(s, Len(s) - Len(p) + 1, Len(s)) = p

\* Map.set(k, v) on a map held as a function.
MapSet(m, k, v) == [x \in (DOMAIN m) \cup {k} |-> IF x = k THEN v ELSE m[x]]

(***************************************************************************)
(*                              INSTALLER                                  *)
(***************************************************************************)

\* Bound: the longest files argument explored.
MaxFiles == 3
\* Bound: the longest files argument explored with config.typescript unset or
\* options.silent set; the first changes the name of a destination only and
\* the second the report only.
MaxFilesOpt == 2

\* config.resolvedPaths.cwd
cwd == << <<"proj">> >>

\* pathe: join of normalised paths, dirname, basename, relative.
Join(a, b) == a \o b
Dirname(p) == SubSeq(p, 1, Len(p) - 1)
Basename(p) == p[Len(p)]
Relative(from, p) ==
    IF StartsWith(p, from) THEN SubSeq(p, Len(from) + 1, Len(p)) ELSE p

\* All ancestors of a directory and the directory itself (mkdir recursive).
Prefixes(d) == {SubSeq(d, 1, k) : k \in 1..Len(d)}

\* resolveTargetDir: a leading "~/" is dropped, then the target is joined to cwd.
resolveTargetDir(target) ==
    IF Len(target) > 1 /\ target[1] = <<"~">>
    THEN Join(cwd, Tail(target))
    ELSE Join(cwd, target)

\* filePath.replace(/\.ts?$/, '.js'): a path ending ".ts" or ".t" ends ".js".
ReplaceTsExt(p) ==
    LET name == Basename(p)
        swap(n) == Dirname(p) \o <<SubSeq(name, 1, Len(name) - n) \o <<".", "j", "s">> >>
    IN  IF EndsWith(name, <<".", "t", "s">>) THEN swap(3)
        ELSE IF EndsWith(name, <<".", "t">>) THEN swap(2)
        ELSE p

\* Lines 72-79: the destination of a file that carries a target.
FilePath(file) ==
    LET fp == resolveTargetDir(file.target)
    IN  IF ~typescript THEN ReplaceTsExt(fp) ELSE fp

\* Line 74: targetDir = path.dirname(filePath).
TargetDir(file) == Dirname(resolveTargetDir(file.target))

\* existsSync
ExistsSync(p) == p \in dirs \/ p \in DOMAIN disk

\* The content of a file is a sequence of blocks, each what one write of
\* fs.writeFile transfers; all blocks stand for the same number of bytes.
\* transform(): opaque and deterministic; its output differs from its input.
Transform(filename, raw) == <<"new">> \o raw

\* ---- inputs ----
\* Every file carries a target (line 72), as the files of the registry's UI
\* items and pages do; the destination of a file without one comes from
\* getRegistryItemFileTargetPath, which is outside this module.  The two
\* targets name different directories with the same folder name X.
SegA == <<"a">>
SegB == <<"b">>
SegX == <<"X">>
NameTs == <<"f", ".", "t", "s">>
NameJs == <<"f", ".", "j", "s">>
DirA == Join(cwd, <<SegA, SegX>>)
DirB == Join(cwd, <<SegB, SegX>>)
TargetA == << <<"~">>, SegA, SegX, NameTs >>
TargetB == << SegB, SegX, NameTs >>
OldContent == <<"old">>
RawContent == <<"raw">>
SourcePath(target) == << <<"ui">>, SegX, Basename(target) >>
\* A registry:ui file for each target, a page, and a file without content.
\* The type of a file does not enter its destination (lines 68-79), and
\* line 64 passes a file without content over before its type or target is
\* looked at.
FileUniverse ==
    {[type |-> "registry:ui", target |-> g, path |-> SourcePath(g),
      content |-> RawContent] : g \in {TargetA, TargetB}}
    \cup {[type |-> "registry:page", target |-> TargetB,
           path |-> SourcePath(TargetB), content |-> RawContent]}
    \cup {[type |-> "registry:ui", target |-> TargetA,
           path |-> SourcePath(TargetA), content |-> <<>>]}

\* A destination folder of the project is absent, empty, or holds the files.
FolderStates == {"absent", "empty", "full"}
ProjectDirs(sa, sb) ==
    {cwd} \cup (IF sa = "absent" THEN {} ELSE Prefixes(DirA))
          \cup (IF sb = "absent" THEN {} ELSE Prefixes(DirB))
ProjectFiles(sa, sb) ==
    (IF sa = "full" THEN {Join(DirA, <<n>>) : n \in {NameTs, NameJs}} ELSE {})
    \cup (IF sb = "full" THEN {Join(DirB, <<n>>) : n \in {NameTs, NameJs}} ELSE {})

\* The second call before it has done anything.
OtherIdle == [pc |-> "idle", path |-> <<>>, dir |-> <<>>]

InstIdle ==
    /\ files = <<>> /\ overwrite = FALSE /\ typescript = TRUE
    /\ silent = FALSE
    /\ dirs = {} /\ disk = <<>> /\ disk0 = <<>>
    /\ pc = "idle" /\ idx = 1
    /\ filesCreated = <<>> /\ filesUpdated = <<>> /\ filesSkipped = <<>>
    /\ folderSkipped = <<>> /\ prompts = <<>> /\ trace = <<>>
    /\ error = "none" /\ noFilesSignal = FALSE /\ summary = <<>>
    /\ existingFile = FALSE /\ absentAtCheck = FALSE
    /\ landed = <<>> /\ wpos = 0
    /\ other = OtherIdle

InstInit ==
    /\ files \in SeqsUpTo(FileUniverse, MaxFiles)
    /\ overwrite \in BOOLEAN
    /\ typescript \in BOOLEAN
    /\ silent \in BOOLEAN
    /\ (~typescript \/ silent) => Len(files) <= MaxFilesOpt
    /\ \E sa \in FolderStates, sb \in FolderStates :
          /\ dirs = ProjectDirs(sa, sb)
          /\ disk = [p \in ProjectFiles(sa, sb) |-> OldContent]
    /\ disk0 = disk
    /\ pc = "start" /\ idx = 1
    /\ filesCreated = <<>> /\ filesUpdated = <<>> /\ filesSkipped = <<>>
    /\ folderSkipped = <<>> /\ prompts = <<>> /\ trace = <<>>
    /\ error = "none" /\ noFilesSignal = FALSE /\ summary = <<>>
    /\ existingFile = FALSE /\ absentAtCheck = FALSE
    /\ landed = <<>> /\ wpos = 0
    /\ other = OtherIdle

\* Lines 40-42: nothing to do for an absent or empty list.
EarlyReturn ==
    /\ pc = "start"
    /\ Len(files) = 0
    /\ pc' = "done"
    /\ UNCHANGED <<files, overwrite, typescript, silent, dirs, disk, disk0, idx,
                   filesCreated, filesUpdated, filesSkipped, folderSkipped,
                   prompts, trace, error, noFilesSignal, summary,
                   existingFile, absentAtCheck, landed, wpos, other>>
    /\ UNCHANGED <<depVars, metaVars, buildVars>>

\* Lines 43-56: defaults, spinner, then the await of Promise.all.
Setup ==
    /\ pc = "start"
    /\ Len(files) > 0
    /\ pc' = "setup"
    /\ UNCHANGED <<files, overwrite, typescript, silent, dirs, disk, disk0, idx,
                   filesCreated, filesUpdated, filesSkipped, folderSkipped,
                   prompts, trace, error, noFilesSignal, summary,
                   existingFile, absentAtCheck, landed, wpos, other>>
    /\ UNCHANGED <<depVars, metaVars, buildVars>>

\* Lines 53-61: the await returns; the result lists start empty.
SetupDone ==
    /\ pc = "setup"
    /\ pc' = "loop"
    /\ idx' = 1
    /\ filesCreated' = <<>> /\ filesUpdated' = <<>> /\ filesSkipped' = <<>>
    /\ folderSkipped' = <<>>
    /\ UNCHANGED <<files, overwrite, typescript, silent, dirs, disk, disk0,
                   prompts, trace, error, noFilesSignal, summary,
                   existingFile, absentAtCheck, landed, wpos, other>>
    /\ UNCHANGED <<depVars, metaVars, buildVars>>

\* Line 64: !file.content
IsEmptyContentAlt(file) == FALSE
IsEmptyContent(file) == file.content = <<>>

TraceEntry(file, outcome, absent) ==
    [i |-> idx, type |-> file.type, path |-> FilePath(file),
     folder |-> Basename(Dirname(FilePath(file))), outcome |-> outcome,
     absent |-> absent]

\* Lines 64-66: a file without content is passed over.
SkipEmpty ==
    /\ pc = "loop"
    /\ idx <= Len(files)
    /\ IsEmptyContent(files[idx])
    /\ idx' = idx + 1
    /\ trace' = Append(trace, TraceEntry(files[idx], "empty", FALSE))
    /\ UNCHANGED <<files, overwrite, typescript, silent, dirs, disk, disk0, pc,
                   filesCreated, filesUpdated, filesSkipped, folderSkipped,
                   prompts, error, noFilesSignal, summary,
                   existingFile, absentAtCheck, landed, wpos, other>>
    /\ UNCHANGED <<depVars, metaVars, buildVars>>

\* Line 81: const existingFile = existsSync(filePath)
ExistingFileAlt(filePath) == filePath \in DOMAIN disk0
ExistingFile(filePath) == ExistsSync(filePath)

\* Lines 105-106 and 122-123: record the file as skipped and continue.
SkipFile(file, absent) ==
    /\ filesSkipped' = Append(filesSkipped, Relative(cwd, FilePath(file)))
    /\ idx' = idx + 1
    /\ pc' = "loop"
    /\ trace' = Append(trace, TraceEntry(file, "skipped", absent))
    /\ UNCHANGED <<dirs, disk, filesCreated, filesUpdated, error>>

\* Lines 130-131 and 135: mkdir is awaited when the target directory is
\* absent, otherwise transform is called and awaited.
BeginWrite(file) ==
    /\ pc' = IF ~ExistsSync(TargetDir(file)) THEN "mkdir" ELSE "transform"
    /\ UNCHANGED <<dirs, disk, idx, trace, filesCreated, filesUpdated,
                   filesSkipped, error>>

\* Line 104: folderSkipped.get(folderName) === true
FolderIsSkipped(m, folderName) == folderName \in DOMAIN m /\ m[folderName]

\* Lines 104-108, then 130: skip the file or go on to write it.
DecideFolder(file, m, absent) ==
    IF FolderIsSkipped(m, Basename(Dirname(FilePath(file))))
    THEN SkipFile(file, absent)
    ELSE BeginWrite(file)

\* Lines 68-93 and, when no prompt is due, 104-108 and 130: a registry:ui
\* file up to its first await; conflicts are decided per folder name.
ProcessUI ==
    /\ pc = "loop"
    /\ idx <= Len(files)
    /\ ~IsEmptyContent(files[idx])
    /\ files[idx].type = "registry:ui"
    /\ LET file == files[idx]
           filePath == FilePath(file)
           folderName == Basename(Dirname(filePath))
           existingFolder == ExistsSync(Dirname(filePath))
           fs1 == IF ~existingFolder
                  THEN MapSet(folderSkipped, folderName, FALSE)
                  ELSE folderSkipped
       IN  /\ existingFile' = ExistingFile(filePath)
           /\ absentAtCheck' = (filePath \notin DOMAIN disk)
           /\ folderSkipped' = fs1
           /\ IF folderName \notin DOMAIN fs1
              THEN /\ pc' = "prompt"
                   /\ UNCHANGED <<dirs, disk, idx, trace, filesCreated,
                                  filesUpdated, filesSkipped, error>>
              ELSE DecideFolder(file, fs1, filePath \notin DOMAIN disk)
    /\ UNCHANGED <<files, overwrite, typescript, silent, disk0, prompts,
                   noFilesSignal, summary, landed, wpos, other>>
    /\ UNCHANGED <<depVars, metaVars, buildVars>>

\* Lines 94-108 and 130: the folder prompt is answered.
AnswerFolderPrompt ==
    /\ pc = "prompt"
    /\ files[idx].type = "registry:ui"
    /\ LET file == files[idx]
           folderName == Basename(Dirname(FilePath(file)))
       IN  \E answer \in BOOLEAN :
             /\ folderSkipped' = MapSet(folderSkipped, folderName, ~answer)
             /\ prompts' = Append(prompts, [kind |-> "folder", i |-> idx,
                                            name |-> folderName,
                                            answer |-> answer])
             /\ DecideFolder(file, MapSet(folderSkipped, folderName, ~answer),
                             absentAtCheck)
    /\ UNCHANGED <<files, overwrite, typescript, silent, disk0, noFilesSignal,
                   summary, existingFile, absentAtCheck, landed, wpos, other>>
    /\ UNCHANGED <<depVars, metaVars, buildVars>>

\* Line 110: existingFile && !options.overwrite
NeedsFilePromptAlt(existing) == existing
NeedsFilePrompt(existing) == existing /\ ~overwrite

\* Lines 68-81, 109-112 and, when no prompt is due, 130: any other file up
\* to its first await; conflicts are decided per file.
ProcessOther ==
    /\ pc = "loop"
    /\ idx <= Len(files)
    /\ ~IsEmptyContent(files[idx])
    /\ files[idx].type # "registry:ui"
    /\ LET file == files[idx]
       IN  /\ existingFile' = ExistingFile(FilePath(file))
           /\ absentAtCheck' = (FilePath(file) \notin DOMAIN disk)
           /\ IF NeedsFilePrompt(ExistingFile(FilePath(file)))
              THEN /\ pc' = "prompt"
                   /\ UNCHANGED <<dirs, disk, idx, trace, filesCreated,
                                  filesUpdated, filesSkipped, error>>
              ELSE BeginWrite(file)
    /\ UNCHANGED <<files, overwrite, typescript, silent, disk0, folderSkipped, prompts,
                   noFilesSignal, summary, landed, wpos, other>>
    /\ UNCHANGED <<depVars, metaVars, buildVars>>

\* Line 121: if (!overwrite)
DeclinedAlt(answer) == FALSE
Declined(answer) == ~answer

\* Lines 112-126 and 130: the file prompt is answered.
AnswerFilePrompt ==
    /\ pc = "prompt"
    /\ files[idx].type # "registry:ui"
    /\ \E answer \in BOOLEAN :
          /\ prompts' = Append(prompts, [kind |-> "file", i |-> idx,
                                         name |-> Basename(files[idx].path),
                                         answer |-> answer])
          /\ IF Declined(answer)
             THEN SkipFile(files[idx], absentAtCheck)
             ELSE BeginWrite(files[idx])
    /\ UNCHANGED <<files, overwrite, typescript, silent, disk0, folderSkipped,
                   noFilesSignal, summary, existingFile, absentAtCheck, landed, wpos, other>>
    /\ UNCHANGED <<depVars, metaVars, buildVars>>

\* Where control goes when an awaited call rejects: out of updateFiles.
PcAfterThrowAlt == "loop"
PcAfterThrow == "failed"

\* The next directory a recursive mkdir makes: the shortest missing ancestor.
NextMissing(targetDir) ==
    SubSeq(targetDir, 1,
           CHOOSE k \in 1..Len(targetDir) :
               /\ ~ExistsSync(SubSeq(targetDir, 1, k))
               /\ \A j \in 1..(k - 1) : ExistsSync(SubSeq(targetDir, 1, j)))

\* Line 131: await fs.mkdir(targetDir, { recursive: true }).  The missing
\* ancestors are made one at a time while updateFiles is suspended; the
\* await returns when the directory is there, or throws with the
\* directories made so far left behind.
Mkdir ==
    /\ pc = "mkdir"
    /\ LET targetDir == TargetDir(files[idx])
       IN  \/ /\ ExistsSync(targetDir)
              /\ pc' = "transform"
              /\ UNCHANGED <<dirs, error>>
           \/ /\ ~ExistsSync(targetDir)
              /\ dirs' = dirs \cup {NextMissing(targetDir)}
              /\ pc' = IF NextMissing(targetDir) = targetDir
                       THEN "transform" ELSE "mkdir"
              /\ UNCHANGED error
           \/ /\ ~ExistsSync(targetDir)
              /\ error' = "mkdir"
              /\ pc' = PcAfterThrow
              /\ UNCHANGED dirs
    /\ UNCHANGED <<files, overwrite, typescript, silent, disk, disk0, idx,
                   filesCreated, filesUpdated, filesSkipped, folderSkipped,
                   prompts, trace, noFilesSignal, summary, existingFile,
                   absentAtCheck, landed, wpos, other>>
    /\ UNCHANGED <<depVars, metaVars, buildVars>>

\* Lines 135-140: await transform(...)
TransformFile ==
    /\ pc = "transform"
    /\ \/ /\ pc' = "write"
          /\ UNCHANGED error
       \/ /\ error' = "transform"
          /\ pc' = PcAfterThrow
    /\ UNCHANGED <<files, overwrite, typescript, silent, dirs, disk, disk0, idx,
                   filesCreated, filesUpdated, filesSkipped, folderSkipped,
                   prompts, trace, noFilesSignal, summary, existingFile,
                   absentAtCheck, landed, wpos, other>>
    /\ UNCHANGED <<depVars, metaVars, buildVars>>

\* The bytes of a file that were never written: a gap reads as zeros.
Hole == "nul"

\* A write of block b at position k of a file: the blocks elsewhere stay, and
\* a gap before position k is filled with zeros.
WriteAt(cur, k, b) ==
    [i \in 1..(IF Len(cur) > k THEN Len(cur) ELSE k) |->
        IF i = k THEN b ELSE IF i <= Len(cur) THEN cur[i] ELSE Hole]

\* Line 142, first part of fs.writeFile: the destination is opened for
\* writing, which creates it or empties it; or the open fails and nothing is
\* changed.
WriteFileOpen ==
    /\ pc = "write"
    /\ \/ /\ disk' = MapSet(disk, FilePath(files[idx]), <<>>)
          /\ wpos' = 0
          /\ pc' = "writing"
          /\ UNCHANGED error
       \/ /\ error' = "write"
          /\ pc' = PcAfterThrow
          /\ UNCHANGED <<disk, wpos>>
    /\ UNCHANGED <<files, overwrite, typescript, silent, dirs, disk0, idx,
                   filesCreated, filesUpdated, filesSkipped, folderSkipped,
                   prompts, trace, noFilesSignal, summary, existingFile,
                   absentAtCheck, landed, other>>
    /\ UNCHANGED <<depVars, metaVars, buildVars>>

\* Line 142, second part of fs.writeFile: the content is written a block at
\* a time, each at the position after the last, while updateFiles is
\* suspended; the write of the last block settles the promise.  Or a write
\* fails and the destination is left with the blocks written so far.
WriteFileData ==
    /\ pc = "writing"
    /\ LET file == files[idx]
           filePath == FilePath(file)
           new == Transform(file.path, file.content)
       IN  \/ /\ wpos < Len(new)
              /\ disk' = MapSet(disk, filePath,
                                WriteAt(disk[filePath], wpos + 1, new[wpos + 1]))
              /\ wpos' = wpos + 1
              /\ IF wpos + 1 = Len(new)
                 THEN /\ landed' = Append(landed, idx)
                      /\ pc' = "written"
                 ELSE UNCHANGED <<landed, pc>>
              /\ UNCHANGED error
           \/ /\ wpos < Len(new)
              /\ error' = "write"
              /\ pc' = PcAfterThrow
              /\ UNCHANGED <<disk, wpos, landed>>
    /\ UNCHANGED <<files, overwrite, typescript, silent, dirs, disk0, idx,
                   filesCreated, filesUpdated, filesSkipped, folderSkipped,
                   prompts, trace, noFilesSignal, summary, existingFile,
                   absentAtCheck, other>>
    /\ UNCHANGED <<depVars, metaVars, buildVars>>

\* Lines 143-145: updateFiles resumes after the write; the file is created
\* or updated by the existence check of line 81, and the loop goes on.
RecordWritten ==
    /\ pc = "written"
    /\ LET file == files[idx]
           rel == Relative(cwd, FilePath(file))
       IN  IF existingFile
           THEN /\ filesUpdated' = Append(filesUpdated, rel)
                /\ UNCHANGED filesCreated
                /\ trace' = Append(trace, TraceEntry(file, "updated", absentAtCheck))
           ELSE /\ filesCreated' = Append(filesCreated, rel)
                /\ UNCHANGED filesUpdated
                /\ trace' = Append(trace, TraceEntry(file, "created", absentAtCheck))
    /\ idx' = idx + 1
    /\ pc' = "loop"
    /\ UNCHANGED <<files, overwrite, typescript, silent, dirs, disk, disk0,
                   filesSkipped, folderSkipped, prompts, error, noFilesSignal,
                   summary, existingFile, absentAtCheck, landed, wpos, other>>
    /\ UNCHANGED <<depVars, metaVars, buildVars>>

\* Lines 148-149: the condition of the "No files updated." message.
NoFilesUpdatedAlt == Len(filesCreated) = 0 /\ Len(filesUpdated) = 0
NoFilesUpdated ==
    LET hasUpdatedFiles == Len(filesCreated) # 0 \/ Len(filesUpdated) # 0
    IN  ~hasUpdatedFiles /\ Len(filesSkipped) = 0

\* Lines 154-158, 170-177, 186-193: the spinner message of a list that is
\* not empty: its verb, the length of the list, and "file" or "files" by the
\* length m that the line looks at.
Message(verb, n, m) ==
    IF n = 0 THEN <<>>
    ELSE <<[verb |-> verb, n |-> n,
            noun |-> IF m = 1 THEN "file" ELSE "files"]>>

\* Lines 159-163, 178-182, 194-198: the paths of a list are logged unless
\* options.silent is set.
Logged(list) == IF ~silent THEN list ELSE <<>>

\* Lines 148-204: the report after the loop.  The noun of the "Skipped"
\* message goes by the length of filesUpdated (line 188).
Report ==
    /\ pc = "loop"
    /\ idx > Len(files)
    /\ noFilesSignal' = NoFilesUpdated
    /\ summary' =
          <<[messages |->
                Message("Created", Len(filesCreated), Len(filesCreated))
                \o Message("Updated", Len(filesUpdated), Len(filesUpdated))
                \o Message("Skipped", Len(filesSkipped), Len(filesUpdated)),
             created |-> Logged(filesCreated),
             updated |-> Logged(filesUpdated),
             skipped |-> Logged(filesSkipped)]>>
    /\ pc' = "done"
    /\ UNCHANGED <<files, overwrite, typescript, silent, dirs, disk, disk0, idx,
                   filesCreated, filesUpdated, filesSkipped, folderSkipped,
                   prompts, trace, error, existingFile, absentAtCheck,
                   landed, wpos, other>>
    /\ UNCHANGED <<depVars, metaVars, buildVars>>

\* The positions at which updateFiles is not running: suspended in an await
\* (lines 53, 94, 112, 131, 135, 142), returned, or left by an exception.
\* There the event loop runs other callbacks.
AwaitPcs == {"setup", "prompt", "mkdir", "transform", "write", "writing",
             "written"}
NotRunningPcs == AwaitPcs \cup {"done", "failed"}

\* The content the second call writes: one block.
OtherContent == <<"oth">>

\* The other callbacks are those of a second call of updateFiles that
\* installs one file to a destination of this call's list.  Its steps on the
\* disk are those of lines 131 and 142, taken one at a time like this call's.
OtherFiles ==
    {[path |-> FilePath(files[n]), dir |-> TargetDir(files[n])] :
        n \in 1..Len(files)}

\* Line 131 of the second call: its mkdir makes one missing ancestor.
OtherMkdir ==
    /\ pc \in NotRunningPcs
    /\ other.pc \in {"idle", "mkdir"}
    /\ \E f \in OtherFiles :
          /\ other.pc = "mkdir" => (f.path = other.path /\ f.dir = other.dir)
          /\ ~ExistsSync(f.dir)
          /\ dirs' = dirs \cup {NextMissing(f.dir)}
          /\ other' = [pc |-> "mkdir", path |-> f.path, dir |-> f.dir]
    /\ UNCHANGED <<files, overwrite, typescript, silent, disk, disk0, pc, idx,
                   filesCreated, filesUpdated, filesSkipped, folderSkipped,
                   prompts, trace, error, noFilesSignal, summary,
                   existingFile, absentAtCheck, landed,
                   wpos>>
    /\ UNCHANGED <<depVars, metaVars, buildVars>>

\* Line 142 of the second call, first part: its writeFile opens the
\* destination, in a folder that exists, and creates or empties it.
OtherWriteOpen ==
    /\ pc \in NotRunningPcs
    /\ other.pc \in {"idle", "mkdir"}
    /\ \E f \in OtherFiles :
          /\ other.pc = "mkdir" => (f.path = other.path /\ f.dir = other.dir)
          /\ ExistsSync(f.dir)
          /\ disk' = MapSet(disk, f.path, <<>>)
          /\ other' = [pc |-> "writing", path |-> f.path, dir |-> f.dir]
    /\ UNCHANGED <<files, overwrite, typescript, silent, dirs, disk0, pc, idx,
                   filesCreated, filesUpdated, filesSkipped, folderSkipped,
                   prompts, trace, error, noFilesSignal, summary,
                   existingFile, absentAtCheck, landed,
                   wpos>>
    /\ UNCHANGED <<depVars, metaVars, buildVars>>

\* Line 142 of the second call, second part: its one block is written at
\* the head of the destination; what else is there stays.
OtherWriteData ==
    /\ pc \in NotRunningPcs
    /\ other.pc = "writing"
    /\ disk' = MapSet(disk, other.path,
                      WriteAt(disk[other.path], 1, OtherContent[1]))
    /\ other' = [other EXCEPT !.pc = "finished"]
    /\ UNCHANGED <<files, overwrite, typescript, silent, dirs, disk0, pc, idx,
                   filesCreated, filesUpdated, filesSkipped, folderSkipped,
                   prompts, trace, error, noFilesSignal, summary,
                   existingFile, absentAtCheck, landed,
                   wpos>>
    /\ UNCHANGED <<depVars, metaVars, buildVars>>

InstNext ==
    \/ EarlyReturn
    \/ Setup
    \/ SetupDone
    \/ SkipEmpty
    \/ ProcessUI
    \/ AnswerFolderPrompt
    \/ ProcessOther
    \/ AnswerFilePrompt
    \/ Mkdir
    \/ TransformFile
    \/ WriteFileOpen
    \/ WriteFileData
    \/ RecordWritten
    \/ Report
    \/ OtherMkdir
    \/ OtherWriteOpen
    \/ OtherWriteData

(***************************************************************************)
(*                        DEPENDENCY CLASSIFIER                            *)
(***************************************************************************)

\* Bound: the most import specifiers of one file explored.
MaxImports == 2

\* new Map(entries).has / .get: the last entry of a key wins.
MapHas(entries, k) == \E n \in 1..Len(entries) : entries[n][1] = k
MapGet(entries, k) ==
    LET n == CHOOSE m \in 1..Len(entries) :
                 /\ entries[m][1] = k
                 /\ \A j \in (m + 1)..Len(entries) : entries[j][1] # k
    IN  entries[n][2]

\* Package names and import specifiers, as token sequences.
PkgVueuseCore == <<"@", "vueuse", "/", "core">>
PkgVueSonner == <<"vue-sonner">>
PkgVaulVue == <<"vaul-vue">>
PkgVCalendar == <<"v-calendar">>
PkgVCalendarNext == <<"v-calendar", "@", "next">>
PkgTanstackTable == <<"@", "tanstack", "/", "vue-table">>
PkgUnovisVue == <<"@", "unovis", "/", "vue">>
PkgUnovisTs == <<"@", "unovis", "/", "ts">>
PkgEmbla == <<"embla-carousel-vue">>
PkgVeeValidate == <<"vee-validate">>
PkgVeeValidateZod == <<"@", "vee-validate", "/", "zod">>
PkgZod == <<"zod">>

\* const DEPENDENCIES: [Dependency, [...PeerDependencies]]
DEPENDENCIES ==
    << <<PkgVueuseCore, <<>> >>,
       <<PkgVueSonner, <<>> >>,
       <<PkgVaulVue, <<>> >>,
       <<PkgVCalendar, <<>> >>,
       <<PkgTanstackTable, <<>> >>,
       <<PkgUnovisVue, <<PkgUnovisTs>> >>,
       <<PkgEmbla, <<>> >>,
       <<PkgVeeValidate, <<PkgVeeValidateZod, PkgZod>> >> >>

\* const DEPENDENCIES_WITH_TAGS
DEPENDENCIES_WITH_TAGS == << <<PkgVCalendar, PkgVCalendarNext>> >>

\* const REGISTRY_DEPENDENCY = '@/'
REGISTRY_DEPENDENCY == <<"@", "/">>

\* source.split('/'): the chunks between the separators.
RECURSIVE Split(_)
Split(s) ==
    IF \A n \in 1..Len(s) : s[n] # "/"
    THEN <<s>>
    ELSE LET k == CHOOSE n \in 1..Len(s) :
                      s[n] = "/" /\ \A j \in 1..(n - 1) : s[j] # "/"
         IN  <<SubSeq(s, 1, k - 1)>> \o Split(SubSeq(s, k + 1, Len(s)))

\* source.split('/').at(-1)
ComponentOf(source) == Split(source)[Len(Split(source))]

\* Lines 287-290: the tagged name when there is one, else the specifier.
DepNameAlt(source) == source
DepName(source) ==
    IF MapHas(DEPENDENCIES_WITH_TAGS, source)
    THEN MapGet(DEPENDENCIES_WITH_TAGS, source)
    ELSE source

\* Lines 284-292: what populateDeps adds to dependencies.
AddedDependencies(source) ==
    IF MapHas(DEPENDENCIES, source)
    THEN LET peerDeps == MapGet(DEPENDENCIES, source)
         IN  {DepName(source)} \cup {peerDeps[n] : n \in 1..Len(peerDeps)}
    ELSE {}

\* Lines 294-297: what populateDeps adds to registryDependencies.
AddedRegistryDependencies(source) ==
    IF StartsWith(source, REGISTRY_DEPENDENCY)
    THEN {ComponentOf(source)}
    ELSE {}

Specifiers ==
    {PkgVueuseCore, PkgVueSonner, PkgVaulVue, PkgVCalendar, PkgTanstackTable,
     PkgUnovisVue, PkgEmbla, PkgVeeValidate,
     <<"@", "/", "components", "/", "ui", "/", "bar">>,
     <<"@", "/", "lib", "/", "utils">>,
     <<"@", "/">>,
     <<"@", "vueuse", "/", "integrations">>,
     <<"vue">>,
     <<"reka-ui">>}

DepIdle ==
    /\ imports = <<>> /\ impIdx = 1
    /\ dependencies = {} /\ registryDependencies = {}

\* Lines 279-281 with the import list the parser found (lines 300-320).
DepInit ==
    /\ imports \in SeqsUpTo(Specifiers, MaxImports)
    /\ impIdx = 1
    /\ dependencies = {}
    /\ registryDependencies = {}

\* Lines 283-298: populateDeps on the next import of the file.
PopulateDeps ==
    /\ impIdx <= Len(imports)
    /\ dependencies' = dependencies \cup AddedDependencies(imports[impIdx])
    /\ registryDependencies' =
           registryDependencies \cup AddedRegistryDependencies(imports[impIdx])
    /\ impIdx' = impIdx + 1
    /\ UNCHANGED imports
    /\ UNCHANGED <<instVars, metaVars, buildVars>>

DepNext == PopulateDeps

(***************************************************************************)
(*                           BLOCK METADATA                                *)
(***************************************************************************)

\* Bound: the most top-level statements of a script explored.
MaxNodes == 2

MetaFields == {"description", "iframeHeight", "containerClass"}

FileVue == <<"page", ".", "v", "u", "e">>
FileTs == <<"page", ".", "t", "s">>

\* decl.init ? decl.init.value : null
InitValue(init) ==
    IF init = "none" THEN "null"
    ELSE IF init = "literal" THEN "text"
    ELSE "undefined"

Declarators ==
    {[name |-> n, init |-> v] :
        n \in MetaFields \cup {"foo"}, v \in {"none", "literal", "expression"}}

\* A statement of the script: node.declaration's type and its declarators.
Nodes ==
    {[declType |-> "VariableDeclaration", declarations |-> <<d>>] : d \in Declarators}
    \cup {[declType |-> "VariableDeclaration",
           declarations |-> <<[name |-> "description", init |-> "literal"],
                              [name |-> "foo", init |-> "literal"]>>],
          [declType |-> "FunctionDeclaration", declarations |-> <<>>],
          [declType |-> "none", declarations |-> <<>>]}

\* Line 344: metadata[decl.id.name] = decl.init ? decl.init.value : null
AssignField(m, decl) == MapSet(m, decl.name, InitValue(decl.init))

\* Lines 342-345: declarations.forEach
RECURSIVE AssignAll(_, _)
AssignAll(m, decls) ==
    IF decls = <<>> THEN m
    ELSE AssignAll(AssignField(m, Head(decls)), Tail(decls))

MetaIdle ==
    /\ metaFile = <<>> /\ metaBody = [hasScript |-> FALSE, nodes |-> <<>>]
    /\ metaIdx = 1 /\ metadata = <<>> /\ metaPc = "idle"

\* Lines 326-330: the record starts with the three fields, all null.
MetaInit ==
    /\ metaFile \in {FileVue, FileTs}
    /\ metaBody \in [hasScript : BOOLEAN, nodes : SeqsUpTo(Nodes, MaxNodes)]
    /\ metaIdx = 1
    /\ metadata = [f \in MetaFields |-> "null"]
    /\ metaPc = "call"

\* Lines 332-335: only a .vue file with a script section is walked.
MetaParse ==
    /\ metaPc = "call"
    /\ metaPc' = IF EndsWith(metaFile, <<".", "v", "u", "e">>) /\ metaBody.hasScript
                 THEN "walk" ELSE "return"
    /\ UNCHANGED <<metaFile, metaBody, metaIdx, metadata>>
    /\ UNCHANGED <<instVars, depVars, buildVars>>

\* Lines 337-347: enter() on the next statement.
MetaEnter ==
    /\ metaPc = "walk"
    /\ metaIdx <= Len(metaBody.nodes)
    /\ LET node == metaBody.nodes[metaIdx]
       IN  metadata' = IF node.declType = "VariableDeclaration"
                       THEN AssignAll(metadata, node.declarations)
                       ELSE metadata
    /\ metaIdx' = metaIdx + 1
    /\ UNCHANGED <<metaFile, metaBody, metaPc>>
    /\ UNCHANGED <<instVars, depVars, buildVars>>

\* The walk is over.
MetaWalked ==
    /\ metaPc = "walk"
    /\ metaIdx > Len(metaBody.nodes)
    /\ metaPc' = "return"
    /\ UNCHANGED <<metaFile, metaBody, metaIdx, metadata>>
    /\ UNCHANGED <<instVars, depVars, buildVars>>

\* Line 352: return metadata
MetaReturn ==
    /\ metaPc = "return"
    /\ metaPc' = "returned"
    /\ UNCHANGED <<metaFile, metaBody, metaIdx, metadata>>
    /\ UNCHANGED <<instVars, depVars, buildVars>>

MetaNext == MetaParse \/ MetaEnter \/ MetaWalked \/ MetaReturn

(***************************************************************************)
(*                           REGISTRY BUILD                                *)
(***************************************************************************)

\* Bound: the most entries of one crawled directory explored.
MaxDirents == 2

\* styles of ./registry-styles, in iteration order.
Styles == <<"default", "new-york">>

Kinds == {"ui", "example", "block"}

\* resolve(registryRootPath, style, kind)
RootPath(style, kind) == << <<"src">>, <<"registry">>, <<style>>, <<kind>> >>

\* Directory entries as readdir(withFileTypes) gives them.  nested says the
\* entry lies below the first level, which only the recursive listing of
\* crawlUI (line 52) returns; files holds, for a folder, the paths of the
\* files below it relative to the folder, in the order the recursive listing
\* of buildBlockRegistry (line 242) returns them; only crawlBlock looks at it.
NamePage == <<"page", ".", "v", "u", "e">>
NameCardVue == <<"Card", ".", "v", "u", "e">>
NameOther == <<"other", ".", "v", "u", "e">>
DirentCard == [name |-> <<"card">>, isFile |-> FALSE, isDirectory |-> TRUE,
               nested |-> FALSE,
               files |-> << <<NamePage>>, <<<<"components">>, NameCardVue>> >>]
DirentDemo == [name |-> <<"Demo", ".", "v", "u", "e">>, isFile |-> TRUE,
               isDirectory |-> FALSE, nested |-> FALSE, files |-> <<>>]
DirentDraft == [name |-> <<"draft">>, isFile |-> FALSE, isDirectory |-> TRUE,
                nested |-> FALSE, files |-> <<>>]
\* A folder whose one file lies beside page.vue, not under components/.
DirentStray == [name |-> <<"stray">>, isFile |-> FALSE, isDirectory |-> TRUE,
                nested |-> FALSE, files |-> << <<NameOther>> >>]
\* A symbolic link: neither a file nor a directory.
DirentLink == [name |-> <<"link">>, isFile |-> FALSE, isDirectory |-> FALSE,
               nested |-> FALSE, files |-> <<>>]
\* A folder inside a component folder.
DirentSub == [name |-> <<"sub">>, isFile |-> FALSE, isDirectory |-> TRUE,
              nested |-> TRUE, files |-> <<>>]
UIDirents == {DirentCard, DirentLink, DirentSub}
Dirents == {DirentCard, DirentDemo}
BlockDirents == {DirentCard, DirentDemo, DirentDraft, DirentStray}

\* dirent.name.endsWith('.vue')
IsVue(dirent) == EndsWith(dirent.name, <<".", "v", "u", "e">>)

\* dirent.name.split('.vue')[0]: what precedes the first ".vue".
StripVue(name) ==
    LET at == {n \in 1..(Len(name) - 3) :
                  SubSeq(name, n, n + 3) = <<".", "v", "u", "e">>}
    IN  IF at = {} THEN name
        ELSE SubSeq(name, 1, (CHOOSE n \in at : \A m \in at : n <= m) - 1)

\* A registry item; from is the path its files were read from.
Item(name, type, root, dirent) ==
    [name |-> name, type |-> type, from |-> Join(root, <<dirent.name>>)]

\* Lines 60-61 and 200: the name of a nested folder is resolved against the
\* root, where it is not, and the readdir of buildUIRegistry rejects.
UIRejects(dirent) == dirent.isDirectory /\ dirent.nested

\* Lines 56-63: crawlUI keeps every directory.
UIStep(root, dirent) ==
    IF ~dirent.isDirectory
    THEN <<>>
    ELSE <<Item(dirent.name, "registry:ui", root, dirent)>>

\* Lines 75-103: crawlExample keeps every .vue file.
ExampleStep(root, dirent) ==
    IF ~IsVue(dirent) \/ ~dirent.isFile
    THEN <<>>
    ELSE <<Item(StripVue(dirent.name), "registry:example", root, dirent)>>

\* Lines 252-254: where buildBlockRegistry reads a listed file from:
\* page.vue beside the folder's entries, any other name under components/.
CompPath(path) ==
    LET name == path[Len(path)]
    IN  IF name = NamePage THEN <<name>> ELSE << <<"components">>, name >>

\* Line 256: readFile rejects when no file is at the place it reads.
BlockRejects(dirent) ==
    /\ ~dirent.isFile
    /\ \E n \in 1..Len(dirent.files) :
          \A m \in 1..Len(dirent.files) : dirent.files[m] # CompPath(dirent.files[n])

\* Lines 115-155: crawlBlock keeps what is not a file and holds files, and
\* .vue files.
BlockStep(root, dirent) ==
    IF ~dirent.isFile
    THEN IF Len(dirent.files) # 0
         THEN <<Item(dirent.name, "registry:block", root, dirent)>>
         ELSE <<>>
    ELSE IF ~IsVue(dirent) \/ ~dirent.isFile
    THEN <<>>
    ELSE <<Item(StripVue(dirent.name), "registry:block", root, dirent)>>

NewTask == [pos |-> 1, out |-> <<>>, resolved |-> FALSE, rejected |-> FALSE]

BuildIdle ==
    /\ tree = <<>> /\ styleIdx = 1 /\ tasks = <<>> /\ completed = <<>>
    /\ registry = <<>> /\ buildPc = "idle"

\* Lines 29-30; tree is what readdir returns for each root of a style.
BuildInit ==
    /\ tree \in [ui : SeqsUpTo(UIDirents, MaxDirents),
                  example : SeqsUpTo(Dirents, MaxDirents),
                  block : SeqsUpTo(BlockDirents, MaxDirents)]
    /\ styleIdx = 1
    /\ tasks = [k \in Kinds |-> NewTask]
    /\ completed = <<>>
    /\ registry = <<>>
    /\ buildPc = "loop"

\* Lines 32-43: the three crawls of the next style are started.
StartStyle ==
    /\ buildPc = "loop"
    /\ styleIdx <= Len(Styles)
    /\ tasks' = [k \in Kinds |-> NewTask]
    /\ completed' = <<>>
    /\ buildPc' = "await"
    /\ UNCHANGED <<tree, styleIdx, registry>>
    /\ UNCHANGED <<instVars, depVars, metaVars>>

\* One resumption of a crawl: the next entry, or the return.  A crawl goes
\* on after the await of line 38 has thrown on the rejection of another.
CrawlTask(kind, items) ==
    /\ buildPc \in {"await", "failed"}
    /\ ~tasks[kind].resolved
    /\ ~tasks[kind].rejected
    /\ IF tasks[kind].pos <= Len(tree[kind])
       THEN /\ tasks' = [tasks EXCEPT ![kind].pos = @ + 1,
                                      ![kind].out = @ \o items]
            /\ UNCHANGED completed
       ELSE /\ tasks' = [tasks EXCEPT ![kind].resolved = TRUE]
            /\ completed' = Append(completed, kind)
    /\ UNCHANGED <<tree, styleIdx, registry, buildPc>>

CurrentDirent(kind) ==
    tree[kind][IF tasks[kind].pos <= Len(tree[kind]) THEN tasks[kind].pos ELSE 1]

\* crawlUI, lines 51-66.  When buildUIRegistry rejects, crawlUI does, then
\* Promise.all, and the await of line 38 throws out of buildRegistry.
CrawlUI ==
    /\ IF tasks["ui"].pos <= Len(tree["ui"]) /\ UIRejects(CurrentDirent("ui"))
       THEN /\ buildPc \in {"await", "failed"}
            /\ ~tasks["ui"].resolved
            /\ ~tasks["ui"].rejected
            /\ tasks' = [tasks EXCEPT !["ui"].rejected = TRUE]
            /\ buildPc' = "failed"
            /\ UNCHANGED <<tree, styleIdx, registry, completed>>
       ELSE CrawlTask("ui", IF tasks["ui"].pos <= Len(tree["ui"])
                            THEN UIStep(RootPath(Styles[styleIdx], "ui"),
                                        CurrentDirent("ui"))
                            ELSE <<>>)
    /\ UNCHANGED <<instVars, depVars, metaVars>>

\* crawlExample, lines 68-106
CrawlExample ==
    /\ CrawlTask("example", IF tasks["example"].pos <= Len(tree["example"])
                            THEN ExampleStep(RootPath(Styles[styleIdx], "example"),
                                             CurrentDirent("example"))
                            ELSE <<>>)
    /\ UNCHANGED <<instVars, depVars, metaVars>>

\* crawlBlock, lines 108-158.  When buildBlockRegistry rejects, crawlBlock
\* does, then Promise.all, and the await of line 38 throws.
CrawlBlock ==
    /\ IF /\ tasks["block"].pos <= Len(tree["block"])
          /\ BlockRejects(CurrentDirent("block"))
       THEN /\ buildPc \in {"await", "failed"}
            /\ ~tasks["block"].resolved
            /\ ~tasks["block"].rejected
            /\ tasks' = [tasks EXCEPT !["block"].rejected = TRUE]
            /\ buildPc' = "failed"
            /\ UNCHANGED <<tree, styleIdx, registry, completed>>
       ELSE CrawlTask("block", IF tasks["block"].pos <= Len(tree["block"])
                               THEN BlockStep(RootPath(Styles[styleIdx], "block"),
                                              CurrentDirent("block"))
                               ELSE <<>>)
    /\ UNCHANGED <<instVars, depVars, metaVars>>

\* Promise.all: the results in the order of the promises given.
RECURSIVE Concat(_, _)
Concat(order, t) ==
    IF order = <<>> THEN <<>> ELSE t[Head(order)].out \o Concat(Tail(order), t)
PromiseAllAlt(t, done) == Concat(done, t)
PromiseAll(t, done) == Concat(<<"ui", "example", "block">>, t)

\* Promise.all settles once every promise has.
AllSettled(t) == \A k \in Kinds : t[k].resolved

\* Lines 38 and 45: the await returns and the results are pushed.
PushResults ==
    /\ buildPc = "await"
    /\ AllSettled(tasks)
    /\ registry' = registry \o PromiseAll(tasks, completed)
    /\ styleIdx' = styleIdx + 1
    /\ buildPc' = "loop"
    /\ UNCHANGED <<tree, tasks, completed>>
    /\ UNCHANGED <<instVars, depVars, metaVars>>

\* Line 48: return registry
ReturnRegistry ==
    /\ buildPc = "loop"
    /\ styleIdx > Len(Styles)
    /\ buildPc' = "done"
    /\ UNCHANGED <<tree, styleIdx, tasks, completed, registry>>
    /\ UNCHANGED <<instVars, depVars, metaVars>>

BuildNext ==
    \/ StartStyle
    \/ CrawlUI
    \/ CrawlExample
    \/ CrawlBlock
    \/ PushResults
    \/ ReturnRegistry

(***************************************************************************)
(*                           SPECIFICATIONS                                *)
(***************************************************************************)

Init == InstInit /\ DepIdle /\ MetaIdle /\ BuildIdle
Next == InstNext
Spec == Init /\ [][Next]_vars

InitDeps == DepInit /\ InstIdle /\ MetaIdle /\ BuildIdle
NextDeps == DepNext
SpecDeps == InitDeps /\ [][NextDeps]_vars

InitMeta == MetaInit /\ InstIdle /\ DepIdle /\ BuildIdle
NextMeta == MetaNext
SpecMeta == InitMeta /\ [][NextMeta]_vars

InitBuild == BuildInit /\ InstIdle /\ DepIdle /\ MetaIdle
NextBuild == BuildNext
SpecBuild == InitBuild /\ [][NextBuild]_vars

(***************************************************************************)
(*                              PROPERTIES                                 *)
(***************************************************************************)

Range(q) == {q[n] : n \in 1..Len(q)}
Written(e) == e.outcome \in {"created", "updated"}
NonEmptyInputs == {n \in 1..Len(files) : files[n].content # <<>>}
\* The directory a file of the input is destined for.
DestDir(n) == Dirname(FilePath(files[n]))
\* What a finished write of input n leaves at its destination.
NewContent(n) == Transform(files[n].path, files[n].content)
\* The run has had the disk to itself: the second call has done nothing yet.
Alone == other = OtherIdle
\* The destinations of the input, and the new contents written to one.
Dests == {FilePath(files[n]) : n \in 1..Len(files)}
NewContentsAt(p) ==
    {NewContent(n) : n \in {j \in NonEmptyInputs : FilePath(files[j]) = p}}
\* What a write that failed may leave of the content of input n.
PartsOf(n) == {SubSeq(NewContent(n), 1, k) : k \in 0..(Len(NewContent(n)) - 1)}
\* The number of times x occurs in the sequence q.
Occ(q, x) == Cardinality({n \in 1..Len(q) : q[n] = x})

\* C1 (as claimed): the folder prompt is issued at most once per destination
\* folder name; after a declined prompt every registry:ui file with content
\* destined for that folder is skipped and none is written; after an accepted
\* prompt every such file is written.
C1_FolderDecisionCoversFolder ==
    /\ \A m, n \in 1..Len(prompts) :
          (/\ prompts[m].kind = "folder" /\ prompts[n].kind = "folder"
           /\ prompts[m].name = prompts[n].name) => m = n
    /\ \A n \in 1..Len(prompts) : \A k \in 1..Len(trace) :
          (/\ prompts[n].kind = "folder"
           /\ trace[k].type = "registry:ui"
           /\ trace[k].outcome # "empty"
           /\ DestDir(trace[k].i) = DestDir(prompts[n].i))
          => IF prompts[n].answer
             THEN Written(trace[k])
             ELSE trace[k].outcome = "skipped"

\* C2: with options.overwrite = true no prompt is issued or pending for a
\* file that is not registry:ui; every such file with content that the loop
\* has passed was written: its writeFile completed and it is recorded as
\* created or updated; on completion the loop has passed them all, and in a
\* run that had the disk to itself each of their destinations holds the new
\* content.
C2_OverwriteBypassesFilePrompt ==
    overwrite =>
        /\ \A n \in 1..Len(prompts) : files[prompts[n].i].type = "registry:ui"
        /\ pc = "prompt" => files[idx].type = "registry:ui"
        /\ \A k \in 1..Len(trace) :
              (trace[k].type # "registry:ui" /\ trace[k].outcome # "empty")
              => /\ Written(trace[k])
                 /\ trace[k].i \in Range(landed)
        /\ pc = "done" =>
              \A n \in NonEmptyInputs :
                  files[n].type # "registry:ui" =>
                      /\ \E k \in 1..Len(trace) : trace[k].i = n
                      /\ Alone =>
                            /\ FilePath(files[n]) \in DOMAIN disk
                            /\ disk[FilePath(files[n])] \in
                                   NewContentsAt(FilePath(files[n]))

\* C2 witness: overwrite is set, a non-UI file whose destination existed
\* before the run was updated, no prompt was issued, and the destination
\* holds the new content in place of the old.
C2_Witness ==
    /\ overwrite
    /\ prompts = <<>>
    /\ pc = "done"
    /\ Alone
    /\ \E k \in 1..Len(trace) :
          /\ trace[k].type = "registry:page"
          /\ trace[k].outcome = "updated"
          /\ trace[k].path \in DOMAIN disk0
          /\ disk0[trace[k].path] = OldContent
          /\ disk[trace[k].path] = NewContent(trace[k].i)

\* C3: a step in which a conflict prompt is answered no records the file in
\* skipped, leaves created, updated and the disk as they were, and moves on
\* to the next file.
C3_DeclineSkipsAndContinues ==
    [][(/\ Len(prompts') = Len(prompts) + 1
        /\ ~prompts'[Len(prompts')].answer)
       => /\ filesSkipped' =
                 Append(filesSkipped, Relative(cwd, FilePath(files[idx])))
          /\ filesCreated' = filesCreated
          /\ filesUpdated' = filesUpdated
          /\ disk' = disk
          /\ dirs' = dirs
          /\ idx' = idx + 1
          /\ pc' = "loop"
          /\ error' = "none"]_vars

\* C3 witness: a folder prompt and a file prompt were both declined, the run
\* completed, and the destinations still hold their original content.
C3_Witness ==
    /\ pc = "done"
    /\ \E m, n \in 1..Len(prompts) :
          /\ prompts[m].kind = "folder" /\ ~prompts[m].answer
          /\ prompts[n].kind = "file" /\ ~prompts[n].answer
    /\ Len(filesSkipped) >= 2
    /\ disk = disk0
    /\ disk # <<>>

\* C4 (as claimed): a written file is created iff its destination did not
\* exist when the run began.
C4_CreatedIffAbsentAtStart ==
    \A k \in 1..Len(trace) :
        Written(trace[k]) =>
            (trace[k].outcome = "created" <=> trace[k].path \notin DOMAIN disk0)

\* C4 (amended): a written file is created iff its destination did not exist
\* when its own iteration checked it (line 81), and updated otherwise; in a
\* run that had the disk to itself that is iff the destination was neither
\* there when the run began nor written by an earlier file of the run.
C4_CreatedIffAbsentWhenProcessed ==
    \A k \in 1..Len(trace) :
        Written(trace[k]) =>
            /\ trace[k].outcome = "created" <=> trace[k].absent
            /\ Alone =>
                  (trace[k].outcome = "created" <=>
                      /\ trace[k].path \notin DOMAIN disk0
                      /\ \A j \in 1..(k - 1) :
                            ~(Written(trace[j]) /\ trace[j].path = trace[k].path))

\* C4 witness: two files with the same destination, which was absent when
\* the run began, were both written in a run that had the disk to itself:
\* the first is created and the second is updated.
C4_Witness ==
    /\ pc = "done"
    /\ Alone
    /\ Len(trace) = 2
    /\ trace[1].path = trace[2].path
    /\ trace[1].path \notin DOMAIN disk0
    /\ trace[1].outcome = "created"
    /\ trace[2].outcome = "updated"
    /\ filesCreated = <<Relative(cwd, trace[1].path)>>
    /\ filesUpdated = <<Relative(cwd, trace[2].path)>>

\* C5 (as claimed): after a failure the remaining files are not processed,
\* the files written before it are on disk with their new content, and the
\* created, updated and skipped lists are still reported.
C5_ReportedAfterFailure ==
    error # "none" =>
        /\ Len(trace) = idx - 1
        /\ \A k \in 1..Len(trace) :
              Written(trace[k]) =>
                  /\ trace[k].path \in DOMAIN disk
                  /\ Alone => disk[trace[k].path] \in NewContentsAt(trace[k].path)
        /\ Len(summary) = 1

\* A step of the second call.
OtherStep == OtherMkdir \/ OtherWriteOpen \/ OtherWriteData

\* The variables that updateFiles itself assigns.
ownVars == <<pc, idx, filesCreated, filesUpdated, filesSkipped, folderSkipped,
             prompts, trace, landed, error, existingFile, noFilesSignal,
             summary>>

\* C5 (amended): after a failure updateFiles is over: the failing file and
\* the files after it are not processed, and from then on updateFiles
\* assigns nothing and writes nothing; the files written before the failure
\* are on disk, in a run that had the disk to itself with their new content,
\* except that a failed write leaves its own destination, which an earlier
\* file may have written, with none or a part of its content; and nothing is
\* reported, neither the lists nor the "No files updated." message.
C5_FailureAbortsWithoutReport ==
    /\ [](error # "none" =>
            /\ pc = "failed"
            /\ idx <= Len(files)
            /\ Len(trace) = idx - 1
            /\ \A k \in 1..Len(trace) :
                  Written(trace[k]) =>
                      /\ trace[k].path \in DOMAIN disk
                      /\ Alone =>
                            \/ disk[trace[k].path] \in NewContentsAt(trace[k].path)
                            \/ /\ error = "write"
                               /\ trace[k].path = FilePath(files[idx])
                               /\ disk[trace[k].path] \in PartsOf(idx)
            /\ summary = <<>>
            /\ ~noFilesSignal)
    /\ [][error # "none" =>
             /\ UNCHANGED ownVars
             /\ (UNCHANGED <<dirs, disk>> \/ OtherStep)]_vars

\* C5 witness: in a run that had the disk to itself the first file was
\* written, then the write of the second file, to the same destination,
\* failed after the open: the destination is left empty, nothing is
\* reported, and a third file remains.
C5_Witness ==
    /\ error = "write"
    /\ Alone
    /\ idx = 2
    /\ Len(files) = 3
    /\ Written(trace[1])
    /\ landed = <<1>>
    /\ FilePath(files[2]) = trace[1].path
    /\ disk[trace[1].path] = <<>>
    /\ summary = <<>>

\* The run did nothing: no file was created, updated or skipped.
NothingDone == \A k \in 1..Len(trace) : trace[k].outcome = "empty"

\* C6 (as claimed): on completion the "No files updated." message is emitted
\* exactly when nothing was created, updated or skipped, an empty list
\* included.
C6_SignalIffNothingDone ==
    pc = "done" => (noFilesSignal <=> NothingDone)

\* C6 (amended): on completion the message is emitted exactly when the list
\* is not empty and nothing was created, updated or skipped; for an empty
\* list updateFiles returns at once and emits nothing.
C6_SignalIffNothingDoneNonEmptyList ==
    pc = "done" => (noFilesSignal <=> (Len(files) > 0 /\ NothingDone))

\* C6 witness: a list of two files without content completed with the
\* message.
C6_Witness ==
    /\ pc = "done"
    /\ Len(files) = 2
    /\ noFilesSignal
    /\ Len(trace) = 2

\* The files with content and destination p that the loop has passed.
PassedWithContent(p) ==
    {n \in NonEmptyInputs : n < idx /\ FilePath(files[n]) = p}
\* The writes to destination p that have completed.
LandedAt(p) == {k \in 1..Len(landed) : FilePath(files[landed[k]]) = p}
\* The number of entries for destination p in created, updated and skipped.
Entries(p) ==
    Occ(filesCreated, Relative(cwd, p)) + Occ(filesUpdated, Relative(cwd, p))
        + Occ(filesSkipped, Relative(cwd, p))

\* The count the report gives for a list: that of its message, or 0 when
\* the report has no message for it.
Counted(verb) ==
    LET ms == {k \in 1..Len(summary[1].messages) :
                  summary[1].messages[k].verb = verb}
    IN  IF ms = {} THEN 0 ELSE summary[1].messages[CHOOSE k \in ms : TRUE].n

\* C10: for every destination, created, updated and skipped hold between
\* them as many entries as files with content for that destination the loop
\* has passed, and they hold nothing else; a file without content causes no
\* prompt and no write.  On completion the three lengths sum to the number of
\* files with content, the report counts the three lists by their lengths
\* and, unless silent, logs their paths, a destination has as
\* many entries in created and updated as writes to it have completed, and,
\* in a run that had the disk to itself, the disk differs from the disk at the
\* start exactly at the destinations in created or updated.
C10_EveryFileAccountedOnce ==
    /\ \A p \in Dests : Entries(p) = Cardinality(PassedWithContent(p))
    /\ Range(filesCreated) \cup Range(filesUpdated) \cup Range(filesSkipped)
           \subseteq {Relative(cwd, p) : p \in Dests}
    /\ \A n \in 1..Len(prompts) : files[prompts[n].i].content # <<>>
    /\ \A k \in 1..Len(landed) : files[landed[k]].content # <<>>
    /\ pc \in {"prompt", "mkdir", "transform", "write", "writing", "written"}
          => files[idx].content # <<>>
    /\ (pc = "done" /\ Len(files) > 0) =>
          /\ Len(filesCreated) + Len(filesUpdated) + Len(filesSkipped)
                 = Cardinality(NonEmptyInputs)
          /\ Len(summary) = 1
          /\ Counted("Created") = Len(filesCreated)
          /\ Counted("Updated") = Len(filesUpdated)
          /\ Counted("Skipped") = Len(filesSkipped)
          /\ ~silent => /\ summary[1].created = filesCreated
                        /\ summary[1].updated = filesUpdated
                        /\ summary[1].skipped = filesSkipped
          /\ \A p \in Dests :
                Cardinality(LandedAt(p)) =
                    Occ(filesCreated, Relative(cwd, p))
                        + Occ(filesUpdated, Relative(cwd, p))
          /\ Alone =>
                \A p \in Dests \cup DOMAIN disk :
                    (/\ p \in DOMAIN disk
                     /\ (p \in DOMAIN disk0 => disk[p] # disk0[p]))
                    <=> Relative(cwd, p) \in
                            Range(filesCreated) \cup Range(filesUpdated)

\* C10 witness: a run that had the disk to itself completed over a file
\* without content, a created file and a skipped file.
C10_Witness ==
    /\ pc = "done"
    /\ Alone
    /\ Len(files) = 3
    /\ Cardinality(NonEmptyInputs) = 2
    /\ Len(filesCreated) = 1
    /\ Len(filesSkipped) = 1
    /\ Len(landed) = 1
    /\ Len(summary) = 1

\* The external-dependency table as the claim reads it.
TableKeys == {DEPENDENCIES[n][1] : n \in 1..Len(DEPENDENCIES)}
Companions(s) ==
    UNION {Range(DEPENDENCIES[n][2]) : n \in {m \in 1..Len(DEPENDENCIES) :
                                               DEPENDENCIES[m][1] = s}}
Overrides(s) ==
    {DEPENDENCIES_WITH_TAGS[n][2] : n \in {m \in 1..Len(DEPENDENCIES_WITH_TAGS) :
                                            DEPENDENCIES_WITH_TAGS[m][1] = s}}
\* What follows the last "/" of a specifier.
LastSegment(s) ==
    LET slashes == {n \in 1..Len(s) : s[n] = "/"}
        last == IF slashes = {} THEN 0
                ELSE CHOOSE n \in slashes : \A m \in slashes : m <= n
    IN  SubSeq(s, last + 1, Len(s))
\* The three outcomes of the claim, for one specifier.
ClaimedDependencies(s) ==
    IF s \in TableKeys
    THEN (IF Overrides(s) # {} THEN Overrides(s) ELSE {s}) \cup Companions(s)
    ELSE {}
ClaimedRegistryDependencies(s) ==
    IF s \in TableKeys THEN {}
    ELSE IF Len(s) >= 2 /\ s[1] = "@" /\ s[2] = "/" THEN {LastSegment(s)}
    ELSE {}

\* C7: each import falls in exactly one of three cases: a table key adds the
\* override (or else the bare name) and the companions to dependencies and
\* nothing to registryDependencies; a specifier beginning "@/" adds its last
\* segment to registryDependencies and nothing to dependencies; any other
\* adds nothing.  A name with an override is never in dependencies.
C7_ClassifierThreeOutcomes ==
    /\ dependencies =
           UNION {ClaimedDependencies(imports[n]) : n \in 1..(impIdx - 1)}
    /\ registryDependencies =
           UNION {ClaimedRegistryDependencies(imports[n]) : n \in 1..(impIdx - 1)}
    /\ \A n \in 1..(impIdx - 1) :
          Overrides(imports[n]) # {} => imports[n] \notin dependencies

\* C7 witness: v-calendar and an "@/" import with intermediate segments were
\* classified.
C7_Witness ==
    /\ impIdx = 3
    /\ imports[1] = PkgVCalendar
    /\ imports[2] = <<"@", "/", "components", "/", "ui", "/", "bar">>
    /\ dependencies = {PkgVCalendarNext}
    /\ registryDependencies = {<<"bar">>}

\* C8 (as claimed): the record returned has exactly the fields description,
\* iframeHeight and containerClass, and all three are null when the file is
\* not a .vue file or has no script section.
C8_ExactlyThreeFields ==
    metaPc = "returned" =>
        /\ DOMAIN metadata = MetaFields
        /\ (metaFile # FileVue \/ ~metaBody.hasScript) =>
               \A f \in MetaFields : metadata[f] = "null"

\* The registry the claim expects after the first n styles.
KeepsUI(d) == d.isDirectory
KeepsExample(d) == d.isFile /\ IsVue(d)
KeepsBlock(d) == (~d.isFile /\ Len(d.files) > 0) \/ (d.isFile /\ IsVue(d))
ExpectedItems(style, kind, type, q) ==
    [n \in 1..Len(q) |->
        [name |-> IF q[n].isFile THEN StripVue(q[n].name) ELSE q[n].name,
         type |-> type,
         from |-> RootPath(style, kind) \o <<q[n].name>>]]
ExpectedOfStyle(style) ==
    ExpectedItems(style, "ui", "registry:ui", SelectSeq(tree["ui"], KeepsUI))
    \o ExpectedItems(style, "example", "registry:example",
                     SelectSeq(tree["example"], KeepsExample))
    \o ExpectedItems(style, "block", "registry:block",
                     SelectSeq(tree["block"], KeepsBlock))
RECURSIVE ExpectedRegistry(_)
ExpectedRegistry(n) ==
    IF n = 0 THEN <<>> ELSE ExpectedRegistry(n - 1) \o ExpectedOfStyle(Styles[n])

\* C9: whatever the interleaving of the three crawls of a style, the registry
\* holds, for the styles already joined and in style order, the UI items,
\* then the example items, then the block items; nothing of a style is
\* appended before all three of its crawls have completed.  The build ends
\* without a registry only when a crawl has rejected.
C9_RegistryOrderIndependentOfInterleaving ==
    /\ buildPc \in {"loop", "await"} => registry = ExpectedRegistry(styleIdx - 1)
    /\ buildPc = "done" => registry = ExpectedRegistry(Len(Styles))
    /\ buildPc = "failed" =>
          \/ \E n \in 1..Len(tree["ui"]) : UIRejects(tree["ui"][n])
          \/ \E n \in 1..Len(tree["block"]) : BlockRejects(tree["block"][n])

\* C9 witness: the build is done, the crawls of the last style completed in
\* the order block, example, ui, and each contributed items.
C9_Witness ==
    /\ buildPc = "done"
    /\ completed = <<"block", "example", "ui">>
    /\ \A k \in Kinds : Len(tasks[k].out) = 2
    /\ Len(registry) = 12
====
